---- MODULE Spec2Model ----
(***************************************************************************)
(* A model of src/Crisp.py: the CRISP packet codec (CrispPacket), the      *)
(* signature trailer (SKCManager.sign_packet / verify_signature) and the   *)
(* conflict / deadlock logic of SKCManager.                                *)
(*                                                                         *)
(* Bytes are integers 0..255 and byte strings are sequences of them.       *)
(* Integers wider than 31 bits (the 64-bit sequence number) are pairs      *)
(* <<hi, lo>> standing for hi * 2^32 + lo.  Time is counted in             *)
(* milliseconds since the manager was constructed.                         *)
(***************************************************************************)
EXTENDS Integers, Sequences, FiniteSets, TLC

VARIABLES
    now,            \* wall clock, ms since the start of the run
    config,         \* CrispConfig of the manager
    storage,        \* SKCManager.storage, split by key prefix
    vector_clock,   \* SKCManager.vector_clock, a list of <<node, counter>>
    leaves,         \* SKCManager.merkle_tree.leaves
    b_tree,         \* SKCManager.b_tree.nodes
    access_counts,  \* SKCManager.access_counts
    lru_cache,      \* SKCManager.lru_cache: [cache, order, max_size]
    node_id,        \* SKCManager.node_id
    held,           \* packet objects the caller holds
    op,             \* the last operation called
    arg,            \* its input
    ret             \* its outcome: a return value or a raised exception

vars == <<now, config, storage, vector_clock, leaves, b_tree, access_counts,
          lru_cache, node_id, held, op, arg, ret>>

\* the state of the manager
mgrVars == <<config, node_id, storage, vector_clock, leaves, b_tree, access_counts, lru_cache>>

(***************************************************************************)
(* Bounds of the model.                                                    *)
(***************************************************************************)
\* longest payload of the codec runs
MaxPayloadLen == 2

\* milliseconds the clock runs past the expiry age
MaxNow == 1

\* most signatures in the trailer of a packet handed to verify_signature
MaxSigs == 4

\* most sign_packet calls on one packet
MaxSigners == 2

\* most sync_skc calls of a run
MaxSyncs == 2

(***************************************************************************)
(* Outcomes of a call.                                                     *)
(***************************************************************************)
None == [none |-> TRUE]

Return(v) == [kind |-> "return", exc |-> "", msg |-> "", val |-> v]

Raise(e, m) == [kind |-> "raise", exc |-> e, msg |-> m, val |-> None]

(***************************************************************************)
(* Byte strings and Python slicing.                                        *)
(***************************************************************************)
Min(a, b) == IF a < b THEN a ELSE b

Max(a, b) == IF a > b THEN a ELSE b

\* a slice bound of Python, clamped into 0..n
PyIndex(i, n) == IF i < 0 THEN Max(0, n + i) ELSE Min(i, n)

\* s[a:b]
PySlice(s, a, b) == SubSeq(s, PyIndex(a, Len(s)) + 1, PyIndex(b, Len(s)))

\* s[a:]
PyFrom(s, a) == SubSeq(s, PyIndex(a, Len(s)) + 1, Len(s))

Zeros(n) == [i \in 1..n |-> 0]

RECURSIVE Pow2(_)
Pow2(n) == IF n = 0 THEN 1 ELSE 2 * Pow2(n - 1)

\* big-endian bytes of n in w bytes (n < 2^31, w <= 4)
BE(n, w) == [i \in 1..w |-> IF w - i >= 4 THEN 0 ELSE (n \div Pow2(8 * (w - i))) % 256]

RECURSIVE FromBE(_)
FromBE(b) == IF Len(b) = 0 THEN 0 ELSE 256 * FromBE(SubSeq(b, 1, Len(b) - 1)) + b[Len(b)]

\* a 64-bit value hi * 2^32 + lo
U64(hi, lo) == <<hi, lo>>

FitsU32(seq) == seq[1] = 0

(***************************************************************************)
(* struct.pack / struct.unpack, network byte order, no padding.            *)
(***************************************************************************)
Pack_B(n) == BE(n, 1)

Pack_H(n) == BE(n, 2)

Pack_I(n) == BE(n, 4)

Pack_Q(seq) == BE(seq[1], 4) \o BE(seq[2], 4)

\* "Ns": truncated or zero-padded to n bytes
Pack_s(b, n) == [i \in 1..n |-> IF i <= Len(b) THEN b[i] ELSE 0]

RECURSIVE calcsize(_)
calcsize(widths) == IF Len(widths) = 0 THEN 0 ELSE widths[1] + calcsize(Tail(widths))

(***************************************************************************)
(* CRC-32C (Castagnoli), reflected, table driven.  The 32-bit register is  *)
(* four bytes, most significant first.                                     *)
(***************************************************************************)
\* exclusive or of two 4-bit values, bit by bit
NibbleXor ==
    [a \in 0..15 |-> [b \in 0..15 |->
        LET bit(x, i) == (x \div Pow2(i)) % 2
            d(i) == ((bit(a, i) + bit(b, i)) % 2) * Pow2(i)
        IN  d(0) + d(1) + d(2) + d(3)] @@ <<>>] @@ <<>>

\* exclusive or of two bytes
Xor(a, b) == 16 * NibbleXor[a \div 16][b \div 16] + NibbleXor[a % 16][b % 16]

\* the reflected polynomial 0x82F63B78
CrcPoly == <<130, 246, 59, 120>>

CrcShiftRight(r) ==
    <<r[1] \div 2,
      (r[1] % 2) * 128 + r[2] \div 2,
      (r[2] % 2) * 128 + r[3] \div 2,
      (r[3] % 2) * 128 + r[4] \div 2>>

\* one bit of input
CrcShift(r) ==
    LET sh == CrcShiftRight(r)
    IN  IF r[4] % 2 = 1
        THEN <<Xor(sh[1], CrcPoly[1]), Xor(sh[2], CrcPoly[2]), Xor(sh[3], CrcPoly[3]), Xor(sh[4], CrcPoly[4])>>
        ELSE sh

\* n bits of input
RECURSIVE CrcShifts(_, _)
CrcShifts(r, n) == IF n = 0 THEN r ELSE CrcShifts(CrcShift(r), n - 1)

\* the table of the byte-wise algorithm
CrcTable == [n \in 0..255 |-> CrcShifts(<<0, 0, 0, n>>, 8)] @@ <<>>

\* one byte of input: table[(crc ^ b) & 0xFF] ^ (crc >> 8)
CrcByte(r, b) ==
    LET t == CrcTable[Xor(r[4], b)]
    IN  <<t[1], Xor(t[2], r[1]), Xor(t[3], r[2]), Xor(t[4], r[3])>>

\* the register after bytes[lo..hi]; each step's register is computed before
\* it is passed on
RECURSIVE CrcUpdate(_, _, _, _)
CrcUpdate(reg, bytes, lo, hi) ==
    IF lo > hi THEN reg
    ELSE IF lo = hi THEN CrcByte(reg, bytes[lo])
    ELSE LET mid == (lo + hi) \div 2
             left == CrcUpdate(reg, bytes, lo, mid)
         IN  IF left = left THEN CrcUpdate(left, bytes, mid + 1, hi) ELSE left

\* struct.pack("!I", crc32c.crc32(bytes))
crc32c(bytes) ==
    LET r == CrcUpdate(<<255, 255, 255, 255>>, bytes, 1, Len(bytes))
    IN  <<255 - r[1], 255 - r[2], 255 - r[3], 255 - r[4]>>

(***************************************************************************)
(* SHA-256 is abstracted: a 16-bit rolling state stands for the digest     *)
(* and is spread over 32 bytes.  Only equality of digests is relied on.    *)
(***************************************************************************)
HashModulus == 65521

RECURSIVE HashState(_, _, _, _)
HashState(h, bytes, lo, hi) ==
    IF lo > hi THEN h
    ELSE IF lo = hi THEN (h * 31 + bytes[lo] + 1) % HashModulus
    ELSE LET mid == (lo + hi) \div 2
             left == HashState(h, bytes, lo, mid)
         IN  IF left = left THEN HashState(left, bytes, mid + 1, hi) ELSE left

sha256(bytes) ==
    LET h == HashState(7 + Len(bytes), bytes, 1, Len(bytes))
    IN  [i \in 1..32 |-> IF i = 1 THEN h \div 256
                         ELSE IF i = 2 THEN h % 256
                         ELSE (h + 37 * i) % 256]

(***************************************************************************)
(* CrispPacket                                                             *)
(***************************************************************************)
\* field widths of HEADER_FORMAT = "!BHI4s"
HEADER_FORMAT == <<1, 2, 4, 4>>

HEADER_SIZE == 12

\* the high word of int(time.time() * 1000): the millisecond epoch clock has
\* been above 2^32 since February 1970
EpochHi == 409

\* int(time.time() * 1000) at model time t
EpochMs(t) == U64(EpochHi, t)

\* the falsy sequence argument: None or 0
NoSequence == U64(0, 0)

\* CrispPacket._calculate_checksum
calculate_checksum(payload, checksum_type) ==
    IF checksum_type = 1 THEN crc32c(payload) ELSE PySlice(sha256(payload), 0, 4)

\* CrispPacket.__init__, called at time t
CrispPacket(type_id, payload, sequence, checksum_type, t) ==
    [type_id       |-> type_id,
     sequence      |-> IF sequence = NoSequence THEN EpochMs(t) ELSE sequence,
     payload       |-> payload,
     checksum_type |-> checksum_type,
     checksum      |-> calculate_checksum(payload, checksum_type),
     timestamp     |-> t,
     retry_count   |-> 0]

\* CrispPacket.encode
encode(p) ==
    IF \/ p.type_id < 0 \/ p.type_id > 255
       \/ Len(p.payload) + HEADER_SIZE > 65535
       \/ ~FitsU32(p.sequence)
    THEN Raise("struct.error", "format requires 0 <= number <= max")
    ELSE Return(Pack_B(p.type_id) \o Pack_H(Len(p.payload) + HEADER_SIZE)
                \o Pack_I(p.sequence[2]) \o Pack_s(p.checksum, 4) \o p.payload)

\* CrispPacket.decode: the checksum comparison on the packet just constructed
decode_verify(packet) ==
    IF packet.checksum # calculate_checksum(packet.payload, packet.checksum_type)
    THEN Raise("ValueError", "Checksum mismatch")
    ELSE Return(packet)

\* decode without the test of the buffer's length
decode_mut(data, t) ==
    LET buf == PySlice(data, 0, HEADER_SIZE) IN
    IF Len(buf) # calcsize(HEADER_FORMAT)
    THEN Raise("struct.error", "unpack requires a buffer of 11 bytes")
    ELSE decode_verify(CrispPacket(buf[1], PySlice(data, HEADER_SIZE, FromBE(SubSeq(buf, 2, 3))),
                                   U64(0, FromBE(SubSeq(buf, 4, 7))), 1, t))

\* CrispPacket.decode, called at time t
decode(data, t) ==
    IF Len(data) < HEADER_SIZE THEN Raise("ValueError", "Packet too short")
    ELSE LET buf == PySlice(data, 0, HEADER_SIZE) IN
         IF Len(buf) # calcsize(HEADER_FORMAT)
         THEN Raise("struct.error", "unpack requires a buffer of 11 bytes")
         ELSE LET type_id  == buf[1]
                  length   == FromBE(SubSeq(buf, 2, 3))
                  sequence == U64(0, FromBE(SubSeq(buf, 4, 7)))
                  payload  == PySlice(data, HEADER_SIZE, length)
              IN  decode_verify(CrispPacket(type_id, payload, sequence, 1, t))

\* CrispPacket.is_expired, evaluated at time t: older than 5 seconds
ExpirySeconds == 5

is_expired(p, t) == t - p.timestamp > ExpirySeconds * 1000

\* str.encode() of the strings the program encodes
str_encode(s) ==
    CASE s = "Invalid packet format" -> <<73, 110, 118, 97, 108, 105, 100, 32, 112, 97, 99, 107, 101, 116, 32, 102, 111, 114, 109, 97, 116>>
      [] s = "Invalid stored packet" -> <<73, 110, 118, 97, 108, 105, 100, 32, 115, 116, 111, 114, 101, 100, 32, 112, 97, 99, 107, 101, 116>>
      [] s = "Conflict unresolved" -> <<67, 111, 110, 102, 108, 105, 99, 116, 32, 117, 110, 114, 101, 115, 111, 108, 118, 101, 100>>
      [] s = "Deadlock timeout" -> <<68, 101, 97, 100, 108, 111, 99, 107, 32, 116, 105, 109, 101, 111, 117, 116>>
      [] s = "node1" -> <<110, 111, 100, 101, 49>>
      [] s = "node2" -> <<110, 111, 100, 101, 50>>
      [] s = "node3" -> <<110, 111, 100, 101, 51>>
      [] s = "leader1" -> <<108, 101, 97, 100, 101, 114, 49>>

\* CrispPacket.create_error_response, called at time t
create_error_response(correlation_id, original_type, error_code, error_message, t) ==
    LET msg_bytes == str_encode(error_message)
        payload   == Pack_Q(correlation_id) \o Pack_B(original_type) \o Pack_H(error_code)
                     \o Pack_H(Len(msg_bytes)) \o msg_bytes
    IN  CrispPacket(224, payload, NoSequence, 1, t)

(***************************************************************************)
(* ECDSA over P-256 with DER signatures, abstracted.  A private key and    *)
(* its public key are the same small number.  A signature is the DER       *)
(* encoding of two integers r and s: r is fixed by the signer's random     *)
(* nonce, s by the key, the nonce and the SHA-256 digest of the message.   *)
(* A signature verifies exactly when it is a well-formed DER encoding of   *)
(* the r and s some nonce yields for that key and message.                 *)
(***************************************************************************)
\* a nonce: [n |-> the random value, rl |-> bytes of r, sl |-> bytes of s]
EcdsaR(nonce) == [i \in 1..nonce.rl |-> (nonce.n + i) % 256]

EcdsaS(key, message, nonce) ==
    LET digest == sha256(message)
    IN  [i \in 1..nonce.sl |-> IF i = 1 THEN digest[1]
                               ELSE IF i = 2 THEN digest[2]
                               ELSE IF i = 3 THEN key
                               ELSE (nonce.n + 3 * i) % 256]

Der(r, s) == <<48, 4 + Len(r) + Len(s), 2, Len(r)>> \o r \o <<2, Len(s)>> \o s

\* private_key.sign(message, ec.ECDSA(hashes.SHA256()))
ecdsa_sign(private_key, message, nonce) == Der(EcdsaR(nonce), EcdsaS(private_key, message, nonce))

\* public_key.verify(signature, message, ec.ECDSA(hashes.SHA256())) does not raise
ecdsa_verify(public_key, signature, message) ==
    /\ Len(signature) >= 8
    /\ signature[1] = 48
    /\ signature[2] = Len(signature) - 2
    /\ signature[3] = 2
    /\ LET rl == signature[4] IN
       /\ rl >= 1
       /\ 6 + rl < Len(signature)
       /\ signature[5 + rl] = 2
       /\ LET sl == signature[6 + rl] IN
          /\ sl >= 3
          /\ 6 + rl + sl = Len(signature)
          /\ LET r     == SubSeq(signature, 5, 4 + rl)
                 s     == SubSeq(signature, 7 + rl, 6 + rl + sl)
                 nonce == [n |-> (r[1] + 255) % 256, rl |-> rl, sl |-> sl]
             IN  /\ r = EcdsaR(nonce)
                 /\ s = EcdsaS(public_key, message, nonce)

(***************************************************************************)
(* SKCManager: signatures                                                  *)
(***************************************************************************)
SIG_LEN == 32

\* the quorum threshold SKCManager.__init__ derives from the configuration
quorum_threshold(cfg) == IF cfg.use_quorums THEN 3 ELSE 1

\* SKCManager.sign_packet with the manager's private key, at time t
sign_packet(private_key, packet, nonce, t) ==
    LET signature == ecdsa_sign(private_key, packet.payload, nonce)
        payload   == packet.payload \o Pack_H(1) \o PySlice(signature, 0, 32)
    IN  CrispPacket(packet.type_id, payload, NoSequence, 1, t)

\* verify_signature: the count in the last two bytes of the payload
trailer_count(payload) == FromBE(PyFrom(payload, -2))

\* verify_signature: signatures[i], counted from the tail
trailer_signature(payload, i) == PySlice(payload, -2 - i * SIG_LEN - SIG_LEN, -2 - i * SIG_LEN)

\* verify_signature: the payload the signatures are verified over
trailer_payload(payload, sig_count) == PySlice(payload, 0, -2 - sig_count * SIG_LEN)

\* verify_signature accepting only a count above the threshold
verify_signature_mut(cfg, packet, public_keys) ==
    IF Len(PyFrom(packet.payload, -2)) # 2
    THEN Raise("struct.error", "unpack requires a buffer of 2 bytes")
    ELSE LET sig_count == trailer_count(packet.payload)
             payload   == trailer_payload(packet.payload, sig_count)
             verified  == Cardinality({i \in 0..(Min(sig_count, Len(public_keys)) - 1) :
                              ecdsa_verify(public_keys[i + 1],
                                           trailer_signature(packet.payload, i), payload)})
         IN  Return(verified > quorum_threshold(cfg))

\* SKCManager.verify_signature
verify_signature(cfg, packet, public_keys) ==
    IF Len(PyFrom(packet.payload, -2)) # 2
    THEN Raise("struct.error", "unpack requires a buffer of 2 bytes")
    ELSE LET sig_count == trailer_count(packet.payload)
             payload   == trailer_payload(packet.payload, sig_count)
             \* zip(signatures, public_keys) stops at the shorter of the two
             verified  == Cardinality({i \in 0..(Min(sig_count, Len(public_keys)) - 1) :
                              ecdsa_verify(public_keys[i + 1],
                                           trailer_signature(packet.payload, i), payload)})
         IN  Return(verified >= quorum_threshold(cfg))

(***************************************************************************)
(* Dictionaries are functions with a finite domain.                        *)
(***************************************************************************)
EmptyDict == <<>>

DictPut(d, k, v) == [x \in (DOMAIN d) \cup {k} |-> IF x = k THEN v ELSE d[x]]

DictDel(d, k) == [x \in (DOMAIN d) \ {k} |-> d[x]]

\* d.get(k, default)
DictGet(d, k, default) == IF k \in DOMAIN d THEN d[k] ELSE default

(***************************************************************************)
(* LRUCache, BTree, MerkleTree                                             *)
(***************************************************************************)
LRU_MAX_SIZE == 1000

SeqRemove(q, k) == SelectSeq(q, LAMBDA x : x # k)

\* LRUCache.__init__
LRUCache(max_size) == [cache |-> EmptyDict, order |-> <<>>, max_size |-> max_size]

\* a put that evicts the most recently used key
lru_put_mut(lru, key, value) ==
    IF key \in DOMAIN lru.cache
    THEN [lru EXCEPT !.cache = DictPut(lru.cache, key, value),
                     !.order = Append(SeqRemove(lru.order, key), key)]
    ELSE IF Cardinality(DOMAIN lru.cache) >= lru.max_size
    THEN [lru EXCEPT !.cache = DictPut(DictDel(lru.cache, lru.order[Len(lru.order)]), key, value),
                     !.order = Append(SubSeq(lru.order, 1, Len(lru.order) - 1), key)]
    ELSE [lru EXCEPT !.cache = DictPut(lru.cache, key, value),
                     !.order = Append(lru.order, key)]

\* LRUCache.put
lru_put(lru, key, value) ==
    IF key \in DOMAIN lru.cache
    THEN [lru EXCEPT !.cache = DictPut(lru.cache, key, value),
                     !.order = Append(SeqRemove(lru.order, key), key)]
    ELSE IF Cardinality(DOMAIN lru.cache) >= lru.max_size
    THEN [lru EXCEPT !.cache = DictPut(DictDel(lru.cache, Head(lru.order)), key, value),
                     !.order = Append(Tail(lru.order), key)]
    ELSE [lru EXCEPT !.cache = DictPut(lru.cache, key, value),
                     !.order = Append(lru.order, key)]

\* LRUCache.get: the cache it leaves and the value returned
lru_get(lru, key) ==
    IF key \in DOMAIN lru.cache
    THEN [lru |-> [lru EXCEPT !.order = Append(SeqRemove(lru.order, key), key)],
          ret |-> lru.cache[key]]
    ELSE [lru |-> lru, ret |-> None]

\* BTree.insert
btree_insert(nodes, key, value) == DictPut(nodes, key, value)

\* MerkleTree.add_leaf
add_leaf(lvs, entry) == Append(lvs, sha256(entry))

\* one pass of the while loop of get_root: every pair leaves[i:i+2], a single
\* last node included, is replaced by the hash of its concatenation
merkle_level(lvs) ==
    [j \in 1..((Len(lvs) + 1) \div 2) |->
        IF 2 * j <= Len(lvs) THEN sha256(lvs[2 * j - 1] \o lvs[2 * j])
                             ELSE sha256(lvs[2 * j - 1])]

RECURSIVE merkle_reduce(_)
merkle_reduce(lvs) == IF Len(lvs) > 1 THEN merkle_reduce(merkle_level(lvs)) ELSE lvs[1]

\* MerkleTree.get_root
get_root(lvs) == IF Len(lvs) = 0 THEN Zeros(32) ELSE merkle_reduce(lvs)

(***************************************************************************)
(* SKCManager: construction                                                *)
(***************************************************************************)
skc_version == 1

neighbors == <<"node2", "node3">>

\* SKCManager.cluster_leaders; <<>> stands for None
self_cluster_leaders(cfg) == IF cfg.use_hierarchical_gossip THEN <<"leader1">> ELSE <<>>

\* the key pair ec.generate_private_key gives a manager, one per node
KeyOf(node) == CASE node = "node1" -> 1 [] node = "node2" -> 2 [] node = "node3" -> 3 [] OTHER -> 4

\* SKCManager.reputation: only the manager's own entry exists
reputation(node) == [n \in {node} |-> 1]

InitStorage == [sync |-> EmptyDict, vote |-> EmptyDict, deadlock |-> EmptyDict]

InitVectorClock(cfg, node) == IF cfg.use_vector_clocks THEN <<(<<node, 0>>)>> ELSE <<>>

(***************************************************************************)
(* SKCManager: vector clock                                                *)
(***************************************************************************)
VC_MAX_NODES == 10

\* insert e into q, sorted by counter descending, after its equals (stable)
RECURSIVE vc_insert(_, _)
vc_insert(q, e) ==
    IF Len(q) = 0 THEN <<e>>
    ELSE IF Head(q)[2] >= e[2] THEN <<Head(q)>> \o vc_insert(Tail(q), e)
    ELSE <<e>> \o q

RECURSIVE vc_sorted(_)
vc_sorted(q) == IF Len(q) = 0 THEN <<>> ELSE vc_insert(vc_sorted(SubSeq(q, 1, Len(q) - 1)), q[Len(q)])

\* SKCManager.trim_vector_clock
trim_vector_clock(cfg, vc, max_nodes) ==
    IF cfg.use_vector_clocks /\ Len(vc) > max_nodes
    THEN SubSeq(vc_sorted(vc), 1, max_nodes)
    ELSE vc

\* a tick that restarts the counter
vc_tick_mut(vc, node) ==
    IF \E i \in 1..Len(vc) : vc[i][1] = node
    THEN [i \in 1..Len(vc) |-> IF vc[i][1] = node THEN <<node, 1>> ELSE vc[i]]
    ELSE Append(vc, <<node, 1>>)

\* vector_clock[node] = vector_clock.get(node, 0) + 1
vc_tick(vc, node) ==
    IF \E i \in 1..Len(vc) : vc[i][1] = node
    THEN [i \in 1..Len(vc) |-> IF vc[i][1] = node THEN <<node, vc[i][2] + 1>> ELSE vc[i]]
    ELSE Append(vc, <<node, 1>>)

RECURSIVE vc_items_bytes(_)
vc_items_bytes(vc) ==
    IF Len(vc) = 0 THEN <<>>
    ELSE Pack_s(str_encode(Head(vc)[1]), 32) \o Pack_I(Head(vc)[2]) \o vc_items_bytes(Tail(vc))

\* SKCManager.encode_vector_clock: the bytes, computed on the trimmed clock
encode_vector_clock(cfg, vc) ==
    IF ~cfg.use_vector_clocks THEN <<>>
    ELSE LET trimmed == trim_vector_clock(cfg, vc, VC_MAX_NODES)
         IN  Pack_I(Len(trimmed)) \o vc_items_bytes(trimmed)

\* SKCManager.huffman_encode
huffman_encode(bytes) == PySlice(bytes, 0, 16)

\* struct.pack("!IBHQQ16sH", ...) + clock_bytes of sync_skc
sync_payload(version, priority, start, end, digest16, clock_bytes) ==
    Pack_I(version) \o Pack_B(priority) \o Pack_H(1) \o Pack_Q(start) \o Pack_Q(end)
    \o Pack_s(digest16, 16) \o Pack_H(Len(clock_bytes)) \o clock_bytes

(***************************************************************************)
(* SKCManager: conflict and deadlock resolution.  An operation on the      *)
(* manager yields the storage it leaves and its outcome.                   *)
(***************************************************************************)
Outcome(st, r) == [storage |-> st, ret |-> r]

\* SKCManager.resolve_deadlock on an expired packet, enc being packet.encode()
store_deadlock(st, packet, enc, t) ==
    IF enc.kind = "raise" THEN Outcome(st, enc)
    ELSE Outcome([st EXCEPT !.deadlock = DictPut(@, packet.sequence, enc.val)],
                 Return(create_error_response(packet.sequence, packet.type_id, 11,
                                              "Deadlock timeout", t)))

\* SKCManager.resolve_deadlock
resolve_deadlock(st, packet, t) ==
    IF is_expired(packet, t)
    THEN store_deadlock(st, packet, encode(packet), t)
    ELSE Outcome(st, Return(None))

\* the tally of collect_votes: votes[seq] after the loop over the neighbors
vote_tally(self_id, st, packets, seq) ==
    LET contending == {packets[i].sequence : i \in 1..Len(packets)}
        add[k \in 0..Len(neighbors)] ==
            IF k = 0 THEN 0
            ELSE LET node == neighbors[k] IN
                 IF /\ node \in DOMAIN st.vote
                    /\ st.vote[node] \in contending
                    /\ st.vote[node] = seq
                 THEN add[k - 1] + DictGet(reputation(self_id), node, 0)
                 ELSE add[k - 1]
    IN  add[Len(neighbors)]

\* sorted(packets, key=tally, reverse=True): stable, descending
sort_by_tally(self_id, st, packets) ==
    LET tally(p) == vote_tally(self_id, st, packets, p.sequence)
        RECURSIVE ins(_, _)
        ins(q, e) == IF Len(q) = 0 THEN <<e>>
                     ELSE IF tally(Head(q)) >= tally(e) THEN <<Head(q)>> \o ins(Tail(q), e)
                     ELSE <<e>> \o q
        build[k \in 0..Len(packets)] == IF k = 0 THEN <<>> ELSE ins(build[k - 1], packets[k])
    IN  build[Len(packets)]

\* SKCManager.collect_votes
collect_votes(self_id, st, packets) == sort_by_tally(self_id, st, packets)

\* SKCManager.resolve_semantic_conflict
resolve_semantic_conflict(self_id, st, incoming, stored, t) ==
    LET votes == collect_votes(self_id, st, <<incoming, stored>>)
    IN  IF Len(votes) > 0 THEN Outcome(st, Return(votes[1]))
        ELSE Outcome(st, Raise("NameError", "name 'incoming_packet' is not defined"))

\* SKCManager.check_conflict with a stored record, dec being CrispPacket.decode(stored)
compare_stored(self_id, st, incoming_packet, hash_val, dec, t) ==
    IF dec.kind = "raise" THEN Outcome(st, dec)
    ELSE IF PySlice(dec.val.payload, 23, 39) # hash_val
    THEN resolve_semantic_conflict(self_id, st, incoming_packet, dec.val, t)
    ELSE resolve_deadlock(st, incoming_packet, t)

\* SKCManager.check_conflict from the storage lookup on
check_stored(self_id, st, incoming_packet, hash_val, stored, t) ==
    IF Len(stored) > 0
    THEN compare_stored(self_id, st, incoming_packet, hash_val, decode(stored, t), t)
    ELSE resolve_deadlock(st, incoming_packet, t)

\* SKCManager.check_conflict
check_conflict(cfg, self_id, st, incoming_packet, t) ==
    IF ~cfg.use_vector_clocks THEN Outcome(st, Return(None))
    ELSE LET buf == PySlice(incoming_packet.payload, 0, 39) IN
         IF Len(buf) # 39
         THEN Outcome(st, Return(create_error_response(incoming_packet.sequence,
                              incoming_packet.type_id, 1, "Invalid packet format", t)))
         ELSE LET version  == SubSeq(buf, 1, 4)
                  hash_val == SubSeq(buf, 24, 39)
              IN  check_stored(self_id, st, incoming_packet, hash_val,
                               DictGet(st.sync, <<self_id, version>>, <<>>), t)

\* the targets of gossip_sync
gossip_targets(cfg, cluster_leaders) ==
    IF cfg.use_hierarchical_gossip /\ Len(cluster_leaders) > 0 THEN cluster_leaders ELSE neighbors

\* gossip_sync: `self.check_conflict(packet) or packet`, cc being check_conflict's outcome
conflict_or_packet(packet, cc) ==
    IF cc.ret.kind = "return" /\ cc.ret.val = None
    THEN Outcome(cc.storage, Return(packet))
    ELSE cc

\* gossip_sync: the loop over the targets and the return, enc being packet.encode()
gossip_store(cfg, self_id, st, packet, targets, enc, t) ==
    IF Len(targets) > 0 /\ enc.kind = "raise" THEN Outcome(st, enc)
    ELSE LET written == {<<targets[i], Pack_I(skc_version)>> : i \in 1..Len(targets)}
             st1 == [st EXCEPT !.sync = [k \in (DOMAIN @) \cup written |->
                                           IF k \in written THEN enc.val ELSE @[k]]]
         IN  conflict_or_packet(packet, check_conflict(cfg, self_id, st1, packet, t))

\* SKCManager.gossip_sync; cluster_leaders = <<>> stands for None or an empty list
gossip_sync(cfg, self_id, st, packet, cluster_leaders, t) ==
    IF packet.type_id # 109 /\ Len(PySlice(packet.payload, 0, 5)) # 5
    THEN Outcome(st, Raise("struct.error", "unpack requires a buffer of 5 bytes"))
    ELSE gossip_store(cfg, self_id, st, packet, gossip_targets(cfg, cluster_leaders),
                      encode(packet), t)

\* SKCManager.sync_skc on the manager `self` (a record of its fields), up to
\* the signed packet it hands to gossip_sync; priority 0 stands for None.
\* Yields the manager it leaves and the signed packet.
sync_skc(self, id_range_start, id_range_end, entries, priority, nonce, t) ==
    LET vc1   == IF self.config.use_vector_clocks
                 THEN vc_tick(self.vector_clock, self.node_id) ELSE self.vector_clock
        lv1   == add_leaf(self.leaves, entries)
        bt1   == btree_insert(self.b_tree, id_range_start, entries)
        key   == <<id_range_start, id_range_end>>
        ac1   == DictPut(self.access_counts, key, DictGet(self.access_counts, key, 0) + 1)
        prio  == IF ac1[key] > 10 THEN 2 ELSE priority
        lru1  == IF prio = 2 THEN lru_put(self.lru_cache, key, entries) ELSE self.lru_cache
        vc2   == trim_vector_clock(self.config, vc1, VC_MAX_NODES)
        clock_bytes == encode_vector_clock(self.config, vc1)
        payload == sync_payload(skc_version, prio, U64(0, id_range_start), U64(0, id_range_end),
                                huffman_encode(get_root(lv1)), clock_bytes)
        packet  == CrispPacket(96, payload, NoSequence, 1, t)
    IN  [self |-> [self EXCEPT !.vector_clock = vc2, !.leaves = lv1, !.b_tree = bt1,
                               !.access_counts = ac1, !.lru_cache = lru1],
         signed_packet |-> sign_packet(KeyOf(self.node_id), packet, nonce, t)]

(***************************************************************************)
(* SKCManager: the packet-building operations.  Strings are given as the   *)
(* bytes of their encoding.                                                *)
(***************************************************************************)
\* struct.pack "f" of the scores used: 0.0, 0.9 and 1.0 given in tenths
Pack_f(tenths) ==
    CASE tenths = 0  -> <<0, 0, 0, 0>>
      [] tenths = 9  -> <<63, 102, 102, 102>>
      [] tenths = 10 -> <<63, 128, 0, 0>>

\* b"".join(struct.pack("!Q", sid) for sid in source_ids)
RECURSIVE pack_ids(_)
pack_ids(ids) == IF Len(ids) = 0 THEN <<>> ELSE Pack_Q(U64(0, Head(ids))) \o pack_ids(Tail(ids))

\* the loop of update_global_partition_directory
RECURSIVE pack_mappings(_)
pack_mappings(mappings) ==
    IF Len(mappings) = 0 THEN <<>>
    ELSE Pack_Q(U64(0, Head(mappings)[1])) \o Pack_s(str_encode(Head(mappings)[2]), 32)
         \o pack_mappings(Tail(mappings))

\* CrispPacket(type_id, payload) followed by sign_packet
build_signed(private_key, type_id, payload, nonce, t) ==
    sign_packet(private_key, CrispPacket(type_id, payload, NoSequence, 1, t), nonce, t)

synthesize_knowledge_payload(source_ids, synthesized_entry) ==
    Pack_I(skc_version) \o Pack_H(Len(source_ids)) \o Pack_Q(U64(0, Len(synthesized_entry)))
    \o pack_ids(source_ids) \o synthesized_entry

validate_semantics_payload(entry_id, schema_id, validation_result) ==
    Pack_Q(U64(0, entry_id)) \o Pack_Q(U64(0, schema_id)) \o Pack_B(validation_result)

update_global_partition_directory_payload(partition_mappings) ==
    Pack_I(skc_version) \o Pack_H(Len(partition_mappings)) \o pack_mappings(partition_mappings)

\* share_reasoning_trace and add_provenance
trace_payload(entry_id, trace_data) ==
    Pack_Q(U64(0, entry_id)) \o Pack_H(Len(trace_data)) \o trace_data

\* priority_broadcast and lightweight_sync
micro_payload(id_range_start, id_range_end, micro_entry) ==
    Pack_I(skc_version) \o Pack_Q(U64(0, id_range_start)) \o Pack_Q(U64(0, id_range_end))
    \o Pack_s(PySlice(huffman_encode(micro_entry), 0, 8), 8)

ethics_check_payload(entry_id, alignment_score, safety_flag) ==
    Pack_Q(U64(0, entry_id)) \o Pack_f(alignment_score) \o Pack_B(safety_flag)

send_adapter_packet_payload(target_protocol, payload) ==
    Pack_H(Len(target_protocol)) \o target_protocol \o payload

(***************************************************************************)
(* The state after SKCManager.__init__                                     *)
(***************************************************************************)
DefaultConfig == [use_vector_clocks |-> TRUE, use_quorums |-> TRUE, use_hierarchical_gossip |-> TRUE]

Configs == {DefaultConfig,
            [DefaultConfig EXCEPT !.use_vector_clocks = FALSE],
            [DefaultConfig EXCEPT !.use_quorums = FALSE],
            [DefaultConfig EXCEPT !.use_hierarchical_gossip = FALSE]}

NoPacket == [none |-> TRUE]

InitManager(cfgs, nodes) ==
    /\ now = 0
    /\ config \in cfgs
    /\ node_id \in nodes
    /\ storage = InitStorage
    /\ vector_clock = InitVectorClock(config, node_id)
    /\ leaves = <<>>
    /\ b_tree = EmptyDict
    /\ access_counts = EmptyDict
    /\ lru_cache = LRUCache(LRU_MAX_SIZE)
    /\ op = "init"
    /\ arg = None
    /\ ret = Return(None)

(***************************************************************************)
(* Inputs                                                                  *)
(***************************************************************************)
ByteVals == {0, 1, 255}

Payloads(n) == UNION {[1..k -> ByteVals] : k \in 0..n}

\* sequence arguments: none given, two that fit the header field, 2^32
SeqArgs == {NoSequence, U64(0, 7), U64(0, 70000), U64(1, 0)}

(***************************************************************************)
(* The codec on its own: a packet is constructed, encoded, and the bytes   *)
(* are decoded, as sent or with one payload byte changed.                  *)
(***************************************************************************)
InitCodec ==
    /\ InitManager({DefaultConfig}, {"node1"})
    /\ \E type_id \in {96, 224}, payload \in Payloads(MaxPayloadLen), sequence \in SeqArgs,
          checksum_type \in {1, 2} :
          held = <<CrispPacket(type_id, payload, sequence, checksum_type, 0)>>

CodecEncode ==
    /\ op = "init"
    /\ op' = "encode"
    /\ arg' = held[1]
    /\ ret' = encode(held[1])
    /\ UNCHANGED <<now, mgrVars, held>>

CodecDecode ==
    /\ op = "encode"
    /\ ret.kind = "return"
    /\ op' = "decode"
    /\ arg' = ret.val
    /\ ret' = decode(ret.val, now)
    /\ UNCHANGED <<now, mgrVars, held>>

\* one byte after the header fields is changed before decoding
CodecDecodeCorrupted ==
    /\ op = "encode"
    /\ ret.kind = "return"
    /\ \E i \in (calcsize(HEADER_FORMAT) + 1)..Len(ret.val), b \in ByteVals :
          /\ b # ret.val[i]
          /\ op' = "decode_corrupted"
          /\ arg' = [ret.val EXCEPT ![i] = b]
          /\ ret' = decode(arg', now)
    /\ UNCHANGED <<now, mgrVars, held>>

\* lengths a header may declare
DeclaredLengths == {0, 11, 12, 13, 65535}

\* the encoded bytes reach the decoder cut short, or with another declared length
CodecDecodeBytes ==
    /\ op = "encode"
    /\ ret.kind = "return"
    /\ \/ \E n \in 0..(Len(ret.val) - 1) : arg' = SubSeq(ret.val, 1, n)
       \/ \E d \in DeclaredLengths :
             arg' = SubSeq(ret.val, 1, 1) \o Pack_H(d) \o SubSeq(ret.val, 4, Len(ret.val))
    /\ op' = "decode_bytes"
    /\ ret' = decode(arg', now)
    /\ UNCHANGED <<now, mgrVars, held>>

NextCodec == CodecEncode \/ CodecDecode \/ CodecDecodeCorrupted \/ CodecDecodeBytes

SpecCodec == InitCodec /\ [][NextCodec]_vars

(***************************************************************************)
(* Signatures on their own.  A packet is signed by one manager after       *)
(* another and handed to verify_signature; or a packet whose payload ends  *)
(* in a signature trailer (signatures, then their count) is handed to      *)
(* verify_signature.  held records what the payload was built from.        *)
(***************************************************************************)
\* the nonces of sign_packet: r and s of 32 or 33 bytes
SignNonces == {[n |-> 229, rl |-> 32, sl |-> 32],
               [n |-> 0,   rl |-> 33, sl |-> 32],
               [n |-> 100, rl |-> 33, sl |-> 33]}

\* a nonce whose signature happens to take 32 bytes
ShortNonce == [n |-> 5, rl |-> 13, sl |-> 13]

SigKeys == {1, 2, 3}

KeyLists == {<<>>, <<1>>, <<1, 2, 3>>, <<2, 1, 3>>, <<4, 1, 2, 3>>}

SigBodies == {<<7>>, <<1, 2>>,
              sync_payload(1, 0, U64(0, 100), U64(0, 200), Zeros(16), <<>>)}

\* what a slot of a trailer holds: a signature of the body that verifies under
\* key, or 32 bytes that verify under no key
SigKinds == {[kind |-> "valid", key |-> k] : k \in SigKeys} \cup {[kind |-> "garbage", key |-> 0]}

SigBytes(body, sig) ==
    IF sig.kind = "valid" THEN ecdsa_sign(sig.key, body, ShortNonce) ELSE Zeros(SIG_LEN)

\* body, the signatures (sigs[1] last), and their count
TrailerPayload(body, sigs) ==
    LET blocks[k \in 0..Len(sigs)] ==
            IF k = 0 THEN <<>> ELSE SigBytes(body, sigs[k]) \o blocks[k - 1]
    IN  body \o blocks[Len(sigs)] \o Pack_H(Len(sigs))

\* the packet in hand at the start: unsigned, or one that arrived with a
\* trailer of up to MaxSigs signatures
InitSig ==
    /\ InitManager({DefaultConfig, [DefaultConfig EXCEPT !.use_quorums = FALSE]}, {"node1"})
    /\ \/ \E body \in SigBodies :
             held = <<[packet |-> CrispPacket(96, body, NoSequence, 1, 0), trailer |-> FALSE,
                       body |-> body, signers |-> <<>>, sigs |-> <<>>]>>
       \/ \E n \in 0..MaxSigs : \E sigs \in [1..n -> SigKinds] :
             held = <<[packet |-> CrispPacket(96, TrailerPayload(<<1, 2>>, sigs), U64(0, 7), 1, 0),
                       trailer |-> TRUE, body |-> <<1, 2>>, signers |-> <<>>, sigs |-> sigs]>>

\* a manager with private key `key` signs the packet in hand
SigSignPacket ==
    /\ op # "verify_signature"
    /\ Len(held[1].signers) < MaxSigners
    /\ ~held[1].trailer
    /\ \E key \in {1, 2}, nonce \in SignNonces :
          /\ held' = <<[held[1] EXCEPT !.packet = sign_packet(key, @, nonce, now),
                                       !.signers = Append(@, [key |-> key, nonce |-> nonce])]>>
          /\ op' = "sign_packet"
          /\ arg' = held[1].packet
          /\ ret' = Return(held'[1].packet)
    /\ UNCHANGED <<now, mgrVars>>

\* verify_signature on the packet in hand
SigVerifyHeld ==
    /\ op # "verify_signature"
    /\ \E keys \in KeyLists :
          /\ op' = "verify_signature"
          /\ arg' = keys
          /\ ret' = verify_signature(config, held[1].packet, keys)
    /\ UNCHANGED <<now, mgrVars, held>>

NextSig == SigSignPacket \/ SigVerifyHeld

SpecSig == InitSig /\ [][NextSig]_vars

(***************************************************************************)
(* Conflict and deadlock resolution.  The caller holds an inbound packet   *)
(* and a packet decoded from a stored record, both constructed at time 0;  *)
(* the clock advances, neighbors cast votes, and the caller runs the       *)
(* resolution operations on the packets.                                   *)
(***************************************************************************)
\* two 16-byte digests
Digest1 == huffman_encode(get_root(<<sha256(<<69>>)>>))

Digest2 == huffman_encode(get_root(<<sha256(<<70>>)>>))

\* payloads of inbound packets: two sync headers that differ in the digest,
\* and one too short for a sync header
Digest1Payload == sync_payload(skc_version, 0, U64(0, 100), U64(0, 200), Digest1, <<>>)

SyncPayloads == {Digest1Payload,
                 sync_payload(skc_version, 0, U64(0, 100), U64(0, 200), Digest2, <<>>)}

InboundPayloads == SyncPayloads \cup {<<1>>}

InboundSeqs == {NoSequence, U64(0, 7), U64(0, 70000)}

StoredSeqs == {U64(0, 7), U64(0, 70000)}

\* sequences a neighbor may vote for
VoteSeqs == {held.incoming.sequence, held.stored.sequence, U64(0, 9)}

Init ==
    /\ InitManager({DefaultConfig, [DefaultConfig EXCEPT !.use_vector_clocks = FALSE]},
                   {"node1", "node2"})
    /\ \E p \in InboundPayloads, ps \in InboundSeqs, q \in SyncPayloads, qs \in StoredSeqs :
          held = [incoming |-> CrispPacket(96, p, ps, 1, 0),
                  stored   |-> CrispPacket(96, q, qs, 1, 0)]

\* time passes: first up to the expiry age, then a millisecond at a time
Tick ==
    /\ \/ now = 0 /\ now' = ExpirySeconds * 1000
       \/ now >= ExpirySeconds * 1000 /\ now < ExpirySeconds * 1000 + MaxNow /\ now' = now + 1
    /\ op' = "tick"
    /\ arg' = None
    /\ ret' = Return(None)
    /\ UNCHANGED <<mgrVars, held>>

\* a neighbor's vote reaches the storage
CastVote ==
    /\ \E node \in {neighbors[i] : i \in 1..Len(neighbors)}, seq \in VoteSeqs :
          /\ DictGet(storage.vote, node, NoSequence) # seq
          /\ storage' = [storage EXCEPT !.vote = DictPut(@, node, seq)]
    /\ op' = "vote"
    /\ arg' = None
    /\ ret' = Return(None)
    /\ UNCHANGED <<now, config, node_id, vector_clock, leaves, b_tree, access_counts,
                   lru_cache, held>>

CheckConflict ==
    /\ \E out \in {check_conflict(config, node_id, storage, held.incoming, now)} :
          /\ storage' = out.storage
          /\ ret' = out.ret
    /\ op' = "check_conflict"
    /\ arg' = held.incoming
    /\ UNCHANGED <<now, config, node_id, vector_clock, leaves, b_tree, access_counts,
                   lru_cache, held>>

ResolveSemanticConflict ==
    /\ \E out \in {resolve_semantic_conflict(node_id, storage, held.incoming, held.stored, now)} :
          /\ storage' = out.storage
          /\ ret' = out.ret
    /\ op' = "resolve_semantic_conflict"
    /\ arg' = held.incoming
    /\ UNCHANGED <<now, config, node_id, vector_clock, leaves, b_tree, access_counts,
                   lru_cache, held>>

ResolveDeadlock ==
    /\ \E out \in {resolve_deadlock(storage, held.incoming, now)} :
          /\ storage' = out.storage
          /\ ret' = out.ret
    /\ op' = "resolve_deadlock"
    /\ arg' = held.incoming
    /\ UNCHANGED <<now, config, node_id, vector_clock, leaves, b_tree, access_counts,
                   lru_cache, held>>

Next == Tick \/ CastVote \/ CheckConflict \/ ResolveSemanticConflict \/ ResolveDeadlock

Spec == Init /\ [][Next]_vars

(***************************************************************************)
(* Synchronisation.  The manager performs local updates (sync_skc) and     *)
(* gossips a packet the caller constructed; check_conflict runs on that    *)
(* packet.                                                                 *)
(***************************************************************************)
Self == [config |-> config, node_id |-> node_id, storage |-> storage,
         vector_clock |-> vector_clock, leaves |-> leaves, b_tree |-> b_tree,
         access_counts |-> access_counts, lru_cache |-> lru_cache]

SyncRanges == {<<100, 200>>, <<300, 400>>}

\* the nonce of the signature sync_skc makes
SyncNonce == [n |-> 229, rl |-> 32, sl |-> 32]

LeaderLists == {<<>>, <<"leader1">>, <<"node1">>}

InitSync ==
    /\ InitManager(Configs, {"node1"})
    /\ \E p \in {Digest1Payload, <<1>>}, ps \in {NoSequence, U64(0, 7)} :
          held = [incoming |-> CrispPacket(96, p, ps, 1, 0), stored |-> NoPacket]

\* sync_skc, ending in `return self.gossip_sync(signed_packet)`
SyncSkc ==
    /\ Len(leaves) < MaxSyncs
    /\ \E range \in SyncRanges, priority \in {0, 2}, nonce \in {SyncNonce} :
       \E local \in {sync_skc(Self, range[1], range[2], <<69>>, priority, nonce, now)} :
       \E out \in {gossip_sync(config, node_id, storage, local.signed_packet, <<>>, now)} :
          /\ op' = "sync_skc"
          /\ arg' = range
          /\ ret' = out.ret
          /\ storage' = out.storage
          /\ vector_clock' = local.self.vector_clock
          /\ leaves' = local.self.leaves
          /\ b_tree' = local.self.b_tree
          /\ access_counts' = local.self.access_counts
          /\ lru_cache' = local.self.lru_cache
    /\ UNCHANGED <<now, config, node_id, held>>

GossipSync ==
    /\ \E cluster_leaders \in LeaderLists :
       \E out \in {gossip_sync(config, node_id, storage, held.incoming, cluster_leaders, now)} :
          /\ storage' = out.storage
          /\ ret' = out.ret
          /\ arg' = cluster_leaders
    /\ op' = "gossip_sync"
    /\ UNCHANGED <<now, config, node_id, vector_clock, leaves, b_tree, access_counts,
                   lru_cache, held>>

NextSync == SyncSkc \/ GossipSync \/ CheckConflict

SpecSync == InitSync /\ [][NextSync]_vars

(***************************************************************************)
(* The packet-building operations of a default manager, each followed by   *)
(* verify_signature on the packet it returned.                             *)
(***************************************************************************)
\* texts: "{}" and "micro-entry"
BuildTexts == {<<123, 125>>, <<109, 105, 99, 114, 111, 45, 101, 110, 116, 114, 121>>}

BuildIds == {1000}

BuildRanges == {<<1000, 2000>>}

\* candidate key lists that start with the manager's own key
BuildKeyLists == {<<KeyOf(node_id)>>, <<KeyOf(node_id), 2, 3, 4>>, <<KeyOf(node_id), 4>>}

InitBuild ==
    /\ InitManager({DefaultConfig}, {"node1"})
    /\ held = <<>>

SynthesizeKnowledge ==
    /\ held = <<>>
    /\ \E ids \in {<<1, 2>>, <<>>}, entry \in BuildTexts, nonce \in SignNonces :
       \E packet \in {build_signed(KeyOf(node_id), 105, synthesize_knowledge_payload(ids, entry), nonce, now)} :
          /\ held' = <<packet>>
          /\ ret' = Return(packet)
    /\ op' = "synthesize_knowledge"
    /\ arg' = None
    /\ UNCHANGED <<now, mgrVars>>

ValidateSemantics ==
    /\ held = <<>>
    /\ \E entry_id \in BuildIds, result \in {0, 1}, nonce \in SignNonces :
       \E packet \in {build_signed(KeyOf(node_id), 106, validate_semantics_payload(entry_id, 12345, result), nonce, now)} :
          /\ held' = <<packet>>
          /\ ret' = Return(packet)
    /\ op' = "validate_semantics"
    /\ arg' = None
    /\ UNCHANGED <<now, mgrVars>>

UpdateGlobalPartitionDirectory ==
    /\ held = <<>>
    /\ \E mappings \in {<<>>, <<(<<1, "node2">>)>>}, nonce \in SignNonces :
       \E packet \in {build_signed(KeyOf(node_id), 107, update_global_partition_directory_payload(mappings), nonce, now)} :
          /\ held' = <<packet>>
          /\ ret' = Return(packet)
    /\ op' = "update_global_partition_directory"
    /\ arg' = None
    /\ UNCHANGED <<now, mgrVars>>

ShareReasoningTrace ==
    /\ held = <<>>
    /\ \E entry_id \in BuildIds, trace \in BuildTexts, nonce \in SignNonces :
       \E packet \in {build_signed(KeyOf(node_id), 108, trace_payload(entry_id, trace), nonce, now)} :
          /\ held' = <<packet>>
          /\ ret' = Return(packet)
    /\ op' = "share_reasoning_trace"
    /\ arg' = None
    /\ UNCHANGED <<now, mgrVars>>

PriorityBroadcast ==
    /\ held = <<>>
    /\ \E range \in BuildRanges, micro \in BuildTexts, nonce \in SignNonces :
       \E packet \in {build_signed(KeyOf(node_id), 109, micro_payload(range[1], range[2], micro), nonce, now)} :
          /\ held' = <<packet>>
          /\ ret' = Return(packet)
    /\ op' = "priority_broadcast"
    /\ arg' = None
    /\ UNCHANGED <<now, mgrVars>>

EthicsCheck ==
    /\ held = <<>>
    /\ \E entry_id \in BuildIds, score \in {0, 9, 10}, flag \in {0, 1}, nonce \in SignNonces :
       \E packet \in {build_signed(KeyOf(node_id), 110, ethics_check_payload(entry_id, score, flag), nonce, now)} :
          /\ held' = <<packet>>
          /\ ret' = Return(packet)
    /\ op' = "ethics_check"
    /\ arg' = None
    /\ UNCHANGED <<now, mgrVars>>

SendAdapterPacket ==
    /\ held = <<>>
    /\ \E proto \in {<<82, 79, 83>>}, data \in BuildTexts, nonce \in SignNonces :
       \E packet \in {build_signed(KeyOf(node_id), 111, send_adapter_packet_payload(proto, data), nonce, now)} :
          /\ held' = <<packet>>
          /\ ret' = Return(packet)
    /\ op' = "send_adapter_packet"
    /\ arg' = None
    /\ UNCHANGED <<now, mgrVars>>

LightweightSync ==
    /\ held = <<>>
    /\ \E range \in BuildRanges, entries \in BuildTexts, nonce \in SignNonces :
       \E packet \in {build_signed(KeyOf(node_id), 112, micro_payload(range[1], range[2], entries), nonce, now)} :
          /\ held' = <<packet>>
          /\ ret' = Return(packet)
    /\ op' = "lightweight_sync"
    /\ arg' = None
    /\ UNCHANGED <<now, mgrVars>>

AddProvenance ==
    /\ held = <<>>
    /\ \E entry_id \in BuildIds, chain \in BuildTexts, nonce \in SignNonces :
       \E packet \in {build_signed(KeyOf(node_id), 80, trace_payload(entry_id, chain), nonce, now)} :
          /\ held' = <<packet>>
          /\ ret' = Return(packet)
    /\ op' = "add_provenance"
    /\ arg' = None
    /\ UNCHANGED <<now, mgrVars>>

\* verify_signature on the packet built
VerifyBuilt ==
    /\ held # <<>>
    /\ op # "verify_signature"
    /\ \E keys \in BuildKeyLists :
          /\ op' = "verify_signature"
          /\ arg' = keys
          /\ ret' = verify_signature(config, held[1], keys)
    /\ UNCHANGED <<now, mgrVars, held>>

NextBuild ==
    \/ SynthesizeKnowledge \/ ValidateSemantics \/ UpdateGlobalPartitionDirectory
    \/ ShareReasoningTrace \/ PriorityBroadcast \/ EthicsCheck \/ SendAdapterPacket
    \/ LightweightSync \/ AddProvenance \/ VerifyBuilt

SpecBuild == InitBuild /\ [][NextBuild]_vars

(***************************************************************************)
(* The Merkle tree on its own: leaves are added and the root is read.      *)
(***************************************************************************)
\* most leaves of the tree
MaxLeaves == 4

LeafEntries == {<<69>>, <<70>>, <<69, 70>>}

InitMerkle ==
    /\ InitManager({DefaultConfig}, {"node1"})
    /\ held = <<>>

\* MerkleTree.add_leaf
AddLeaf ==
    /\ Len(leaves) < MaxLeaves
    /\ \E entry \in LeafEntries :
          /\ leaves' = add_leaf(leaves, entry)
          /\ arg' = entry
    /\ op' = "add_leaf"
    /\ ret' = Return(None)
    /\ UNCHANGED <<now, config, node_id, storage, vector_clock, b_tree, access_counts,
                   lru_cache, held>>

\* MerkleTree.get_root
GetRoot ==
    /\ op # "get_root"
    /\ op' = "get_root"
    /\ arg' = None
    /\ ret' = Return(get_root(leaves))
    /\ UNCHANGED <<now, mgrVars, held>>

NextMerkle == AddLeaf \/ GetRoot

SpecMerkle == InitMerkle /\ [][NextMerkle]_vars

(***************************************************************************)
(* The eviction cache on its own.  Beside the cache the caller keeps, for  *)
(* every key, the last value put and the time of its last put or get.      *)
(***************************************************************************)
\* largest capacity of the cache
MaxCapacity == 2

\* most calls on the cache
MaxLruOps == 4

LruKeys == {"a", "b", "c"}

LruValues == {[v |-> 1], [v |-> 2]}

InitLru ==
    /\ now = 0
    /\ config = DefaultConfig
    /\ node_id = "node1"
    /\ storage = InitStorage
    /\ vector_clock = InitVectorClock(config, node_id)
    /\ leaves = <<>>
    /\ b_tree = EmptyDict
    /\ access_counts = EmptyDict
    /\ \E max_size \in 1..MaxCapacity : lru_cache = LRUCache(max_size)
    /\ held = [value |-> [k \in LruKeys |-> None], stamp |-> [k \in LruKeys |-> 0], clock |-> 0]
    /\ op = "init"
    /\ arg = None
    /\ ret = Return(None)

\* LRUCache.put
LruPut ==
    /\ held.clock < MaxLruOps
    /\ \E key \in LruKeys, value \in LruValues :
          /\ lru_cache' = lru_put(lru_cache, key, value)
          /\ held' = [value |-> [held.value EXCEPT ![key] = value],
                      stamp |-> [held.stamp EXCEPT ![key] = held.clock + 1],
                      clock |-> held.clock + 1]
          /\ arg' = <<key, value>>
    /\ op' = "put"
    /\ ret' = Return(None)
    /\ UNCHANGED <<now, config, node_id, storage, vector_clock, leaves, b_tree, access_counts>>

\* LRUCache.get
LruGet ==
    /\ held.clock < MaxLruOps
    /\ \E key \in LruKeys :
       \E out \in {lru_get(lru_cache, key)} :
          /\ lru_cache' = out.lru
          /\ ret' = Return(out.ret)
          /\ held' = [held EXCEPT !.stamp[key] = held.clock + 1, !.clock = held.clock + 1]
          /\ arg' = key
    /\ op' = "get"
    /\ UNCHANGED <<now, config, node_id, storage, vector_clock, leaves, b_tree, access_counts>>

NextLru == LruPut \/ LruGet

SpecLru == InitLru /\ [][NextLru]_vars

\* C1: decoding an encoded packet in which one payload byte was changed fails
\* with the checksum-mismatch error.
C1_ChecksumIntegrity ==
    op = "decode_corrupted" => (ret.kind = "raise" /\ ret.msg = "Checksum mismatch")

\* C2: decoding an encoded packet succeeds, with the payload of the packet and
\* the checksum its declared checksum function gives for that payload.
C2_RoundTrip ==
    op = "decode" =>
        /\ ret.kind = "return"
        /\ ret.val.payload = held[1].payload
        /\ ret.val.checksum = calculate_checksum(held[1].payload, held[1].checksum_type)

\* the trailing signatures of the packet in hand that verify its body under the
\* candidate key of the same position, positions counted from the tail
C3_ValidCount ==
    Cardinality({i \in 1..Min(Len(held[1].sigs), Len(arg)) :
                    held[1].sigs[i].kind = "valid" /\ held[1].sigs[i].key = arg[i]})

C4_SignVerifyRoundTrip ==
    (/\ op = "verify_signature"
     /\ ~held[1].trailer
     /\ Len(held[1].signers) = 1
     /\ ~config.use_quorums
     /\ arg = <<held[1].signers[1].key>>) =>
        /\ trailer_count(held[1].packet.payload) = 1
        /\ trailer_payload(held[1].packet.payload, 1) = held[1].body
        /\ ret = Return(TRUE)

\* C5: after the n-th sign_packet call on a packet, n >= 2, verify_signature
\* reads a count of n over the original unsigned payload.
C5_CoSignStacking ==
    (op = "sign_packet" /\ Len(held[1].signers) >= 2) =>
        /\ trailer_count(held[1].packet.payload) = Len(held[1].signers)
        /\ trailer_payload(held[1].packet.payload, Len(held[1].signers)) = held[1].body

\* no neighbor's vote names a contending sequence
C6_NoVotes ==
    \A node \in DOMAIN storage.vote :
        storage.vote[node] \notin {held.incoming.sequence, held.stored.sequence}

\* p is an error response with this code and correlation id
IsErrorResponse(p, error_code, correlation_id) ==
    /\ p # None
    /\ p.type_id = 224
    /\ PySlice(p.payload, 0, 8) = Pack_Q(correlation_id)
    /\ PySlice(p.payload, 9, 11) = Pack_H(error_code)

\* C6: when the inbound and the stored packet carry different digests and no
\* neighbor voted for either sequence, conflict resolution returns an error
\* response with code 7 and the inbound sequence as correlation id.
C6_UnresolvedConflict ==
    (/\ op = "resolve_semantic_conflict"
     /\ Len(held.incoming.payload) >= 39
     /\ Len(held.stored.payload) >= 39
     /\ PySlice(held.incoming.payload, 23, 39) # PySlice(held.stored.payload, 23, 39)
     /\ C6_NoVotes) =>
        /\ ret.kind = "return"
        /\ IsErrorResponse(ret.val, 7, held.incoming.sequence)

\* the tally C7 gives a sequence: the weights of the neighbors whose vote names
\* it, a neighbor without a reputation entry weighing 1
C7_Tally(seq) ==
    LET weight(node) == DictGet(reputation(node_id), node, 1)
        add[k \in 0..Len(neighbors)] ==
            IF k = 0 THEN 0
            ELSE IF neighbors[k] \in DOMAIN storage.vote /\ storage.vote[neighbors[k]] = seq
                 THEN add[k - 1] + weight(neighbors[k])
                 ELSE add[k - 1]
    IN  add[Len(neighbors)]

\* C7: conflict resolution returns the packet with the strictly highest tally,
\* the inbound packet on equal tallies, a neighbor without a reputation entry
\* counting with weight 1.
C7_WeightedVoting ==
    op = "resolve_semantic_conflict" =>
        ret = Return(IF C7_Tally(held.stored.sequence) > C7_Tally(held.incoming.sequence)
                     THEN held.stored ELSE held.incoming)

\* C8: resolve_deadlock on a packet aged more than 5 s writes the deadlock
\* record under the packet's sequence and returns an error response with code
\* 11 and that sequence; at any age up to 5 s it returns None and writes nothing.
C8_DeadlockBoundary ==
    [][op' = "resolve_deadlock" =>
          IF now' - arg'.timestamp > ExpirySeconds * 1000
          THEN /\ ret'.kind = "return"
               /\ IsErrorResponse(ret'.val, 11, arg'.sequence)
               /\ arg'.sequence \in DOMAIN storage'.deadlock
          ELSE /\ ret' = Return(None)
               /\ storage' = storage]_vars

\* no candidate key list makes verify_signature accept p
C9_Unauthorized(p) == \A keys \in KeyLists : verify_signature(config, p, keys) # Return(TRUE)

\* C9: check_conflict on a packet whose signatures do not meet the quorum
\* leaves the state of the manager unchanged and does not accept the packet
\* silently.
C9_UnauthorizedNeverApplied ==
    [][(op' = "check_conflict" /\ C9_Unauthorized(arg')) =>
          /\ mgrVars' = mgrVars
          /\ ret' # Return(None)]_vars

\* C10: sync_skc, gossip_sync and check_conflict complete by returning, never
\* by raising.
C10_NoExceptionEscapes ==
    op \in {"sync_skc", "gossip_sync", "check_conflict"} => ret.kind = "return"

\* C11: a range key is in the eviction cache exactly when it has been accessed
\* more than 10 times, whatever priority the callers of sync_skc supplied.
C11_HotnessPromotion ==
    \A key \in DOMAIN access_counts :
        (key \in DOMAIN lru_cache.cache) <=> (access_counts[key] > 10)

\* the local node's own counter in the vector clock, 0 when it has no entry
C12_OwnCounter(vc) ==
    IF \E i \in 1..Len(vc) : vc[i][1] = node_id
    THEN (CHOOSE e \in {vc[i] : i \in 1..Len(vc)} : e[1] = node_id)[2]
    ELSE 0

C13_BuiltPacketsVerify ==
    op = "verify_signature" => ret = Return(TRUE)

C15_SequenceTruncation ==
    op = "encode" =>
        /\ ret.kind = "return"
        /\ SubSeq(ret.val, 4, 7) = Pack_I(arg.sequence[2])

\* the targets C16 names: the manager's cluster leaders when hierarchical
\* gossip is enabled and leaders are known, the neighbors otherwise
C16_Targets ==
    IF config.use_hierarchical_gossip /\ Len(self_cluster_leaders(config)) > 0
    THEN self_cluster_leaders(config) ELSE neighbors

\* C16: a sync_skc call returns its signed packet and leaves the encoding of
\* that packet as the stored sync record of each target.
C16_RoutingTargets ==
    op = "sync_skc" =>
        /\ ret.kind = "return"
        /\ \A i \in 1..Len(C16_Targets) :
              /\ <<C16_Targets[i], Pack_I(skc_version)>> \in DOMAIN storage.sync
              /\ storage.sync[<<C16_Targets[i], Pack_I(skc_version)>>] = encode(ret.val).val

\* one level of the reduction C17 describes: pairs are hashed together, an
\* unpaired last node is hashed with itself (dup) or carried unchanged
C17_Level(lvs, dup) ==
    [j \in 1..((Len(lvs) + 1) \div 2) |->
        IF 2 * j <= Len(lvs) THEN sha256(lvs[2 * j - 1] \o lvs[2 * j])
        ELSE IF dup THEN sha256(lvs[2 * j - 1] \o lvs[2 * j - 1])
        ELSE lvs[2 * j - 1]]

RECURSIVE C17_Root(_, _)
C17_Root(lvs, dup) ==
    IF Len(lvs) = 0 THEN Zeros(32)
    ELSE IF Len(lvs) = 1 THEN lvs[1]
    ELSE C17_Root(C17_Level(lvs, dup), dup)

\* C17: get_root is the reduction in which an unpaired last node is carried
\* up duplicated, at every level, or promoted unhashed, at every level; the
\* empty tree has 32 zero bytes as root.
C17_MerkleOddLevel ==
    op = "get_root" =>
        \/ ret = Return(C17_Root(leaves, TRUE))
        \/ ret = Return(C17_Root(leaves, FALSE))

\* the cached key whose most recent put or get is oldest
C18_Oldest ==
    CHOOSE k \in DOMAIN lru_cache.cache :
        \A j \in DOMAIN lru_cache.cache : held.stamp[k] <= held.stamp[j]

\* C18: after every put and get the cache holds at most max_size keys and the
\* recency list holds exactly the cached keys once each; get returns the last
\* value put for a cached key and None otherwise and leaves the keys as they
\* are; put of a new key into a full cache evicts exactly the key whose most
\* recent put or get is oldest, and no other put evicts.
C18_EvictionCache ==
    [][/\ Cardinality(DOMAIN lru_cache'.cache) <= lru_cache'.max_size
       /\ Len(lru_cache'.order) = Cardinality(DOMAIN lru_cache'.cache)
       /\ {lru_cache'.order[i] : i \in 1..Len(lru_cache'.order)} = DOMAIN lru_cache'.cache
       /\ op' = "get" =>
             /\ ret' = Return(IF arg' \in DOMAIN lru_cache.cache THEN held.value[arg'] ELSE None)
             /\ lru_cache'.cache = lru_cache.cache
       /\ op' = "put" =>
             /\ lru_cache'.cache[arg'[1]] = arg'[2]
             /\ DOMAIN lru_cache'.cache =
                   IF arg'[1] \in DOMAIN lru_cache.cache
                   THEN DOMAIN lru_cache.cache
                   ELSE IF Cardinality(DOMAIN lru_cache.cache) < lru_cache.max_size
                   THEN DOMAIN lru_cache.cache \cup {arg'[1]}
                   ELSE (DOMAIN lru_cache.cache \ {C18_Oldest}) \cup {arg'[1]}]_vars

\* C18 happens: a put of a new key into a full cache of two keys has evicted
\* a key that had been put before
C18_Witness ==
    /\ op = "put"
    /\ lru_cache.max_size = 2
    /\ Cardinality(DOMAIN lru_cache.cache) = 2
    /\ held.stamp[arg[1]] = held.clock
    /\ \E k \in LruKeys \ DOMAIN lru_cache.cache :
          /\ held.value[k] # None
          /\ held.stamp[k] < held.clock - 1

\* the inbound packet carries a sync header for the node's protocol version
\* whose digest differs from the digest of the node's own tree
C19_DigestsDiffer(incoming_packet) ==
    /\ Len(incoming_packet.payload) >= 39
    /\ PySlice(incoming_packet.payload, 0, 4) = Pack_I(skc_version)
    /\ PySlice(incoming_packet.payload, 23, 39) # huffman_encode(get_root(leaves))

\* C19: once the node has performed sync_skc, check_conflict on an inbound
\* sync packet of the same protocol version with a different digest finds
\* the node's stored record for that version and returns the outcome of
\* conflict resolution, one of the two sync packets, rather than the outcome
\* of the deadlock check.
C19_ConflictReachable ==
    (/\ op = "check_conflict"
     /\ config.use_vector_clocks
     /\ Len(leaves) >= 1
     /\ C19_DigestsDiffer(arg)) =>
        /\ <<node_id, Pack_I(skc_version)>> \in DOMAIN storage.sync
        /\ ret.kind = "return"
        /\ ret.val # None
        /\ ret.val.type_id = 96

\* C20: decoding an encoded packet whose sequence fits the 32-bit header field
\* succeeds with the type id and the sequence of the packet that was encoded.
C20_HeaderIdentity ==
    (op = "decode" /\ FitsU32(held[1].sequence)) =>
        /\ ret.kind = "return"
        /\ ret.val.type_id = held[1].type_id
        /\ ret.val.sequence = held[1].sequence

====
